---- MODULE Spec2Model ----
(***************************************************************************)
(* A model of trousse.dataset.Dataset (src/src/trousse/dataset.py): the    *)
(* table, the column-role sets, the ledger of FeatureOperation records     *)
(* (feature_elaborations), and the queries over them.                      *)
(*                                                                         *)
(* Python values are encoded as follows.                                   *)
(*   - None in a field of a FeatureOperation is the string "None" for the  *)
(*     scalar fields and the one-element tuple NoneCols for the two tuple  *)
(*     fields, so that a tuple field is always a sequence of strings.      *)
(*   - an Optional[FeatureOperation] return value is a sequence of at most *)
(*     one operation (<<>> is None).                                       *)
(*   - a float ratio is an exact fraction <<num, den>>.                    *)
(*   - a table cell is a pair <<type, value>>: the name of the Python type *)
(*     of the value and a number (True is 1, a string is numbered); the    *)
(*     missing marker is the pair NaN.                                     *)
(*   - a raised exception is the name of its class in last.exc, and        *)
(*     "None" there means that the call returned.                          *)
(***************************************************************************)
EXTENDS Integers, Sequences, FiniteSets, TLC

VARIABLES
    df,                    \* Dataset._df: [nrows, cols: column name -> values]
    metadata_cols,         \* Dataset._metadata_cols
    feature_cols,          \* Dataset._feature_cols
    feature_elaborations,  \* Dataset.feature_elaborations (a defaultdict(list))
    derived_columns,       \* Dataset.derived_columns
    columns_type_cache,    \* the value that lazy_property keeps for _columns_type
    nops,                  \* number of add_operation calls made so far
    copies,                \* the Dataset made by copy_dataset_with_new_df, if any
    last                   \* the last call: its name, argument and outcome

vars == <<df, metadata_cols, feature_cols, feature_elaborations,
          derived_columns, columns_type_cache, nops, copies, last>>

----------------------------------------------------------------------------
(* Bounds of the model *)

\* add_operation is called at most MaxOps times in a behaviour
MaxOps == 2

\* tables have at most MaxRows rows
MaxRows == 10

----------------------------------------------------------------------------
(* Column names, values and FeatureOperation records *)

\* the column names in use; the table of the ledger model holds "a" and "b"
Cols == {"a", "b", "c"}

DfCols == {"a", "b"}

None == "None"

\* None in original_columns / derived_columns
NoneCols == <<"None">>

\* the missing-value marker of a table cell
NaN == <<"NaN", 0>>

\* two strings as table cells
V1 == <<"str", 1>>

V2 == <<"str", 2>>

\* the values of a table cell
Values == {NaN, V1, V2}

\* the Python types of the values, by the name that str(type(r))
\* shows between the quotes
PyBool == "bool"

PyStr == "str"

PyInt == "int"

PyFloat == "float"

PyInterval == "pandas._libs.interval.Interval"

PyTimestamp == "pandas._libs.tslibs.timestamps.Timestamp"

\* the key under which pandas counts a value as distinct: values that are
\* equal in Python are one value, and a bool, an int and a float of the same
\* number are equal
PyKey(v) == IF v[1] \in {PyBool, PyInt, PyFloat} THEN <<"number", v[2]>> ELSE v

OperationTypes == {"CATEGORICAL_ENCODING", "FILL_NA"}

\* FeatureOperation(operation_type, original_columns, derived_columns, encoder)
FeatureOperation(t, o, d, e) ==
    [operation_type |-> t, original_columns |-> o,
     derived_columns |-> d, encoder |-> e]

\* the operations that the model registers: from one or two original columns
\* to a derived column that is new or is the original one, and one operation
\* each with original_columns None, with no original column, and with
\* derived_columns None
AddOps ==
    { FeatureOperation(t, o, d, "E1") :
        t \in OperationTypes,
        o \in {<<"a">>, <<"a", "b">>},
        d \in {<<"a">>, <<"c">>} }
    \cup
    { FeatureOperation("FILL_NA", NoneCols, <<"c">>, None),
      FeatureOperation("FILL_NA", <<>>, <<"a">>, None),
      FeatureOperation("FILL_NA", <<"b">>, NoneCols, None) }

\* the operations that the model looks up: every field may be left None
QueryOps ==
    { FeatureOperation(t, o, d, None) :
        t \in {"CATEGORICAL_ENCODING", None},
        o \in {NoneCols, <<>>, <<"a">>},
        d \in {NoneCols, <<"c">>} }
    \cup
    { FeatureOperation("CATEGORICAL_ENCODING", NoneCols, <<>>, None) }

\* a variant of FieldEq without the wildcard
FieldEqStrict(x, y, none) == x = y

\* FeatureOperation.__eq__: field by field, None on either side matches
FieldEq(x, y, none) == x = none \/ y = none \/ x = y

FeatureOperationEq(f, g) ==
    /\ FieldEq(f.operation_type, g.operation_type, None)
    /\ FieldEq(f.original_columns, g.original_columns, NoneCols)
    /\ FieldEq(f.derived_columns, g.derived_columns, NoneCols)
    /\ FieldEq(f.encoder, g.encoder, None)

----------------------------------------------------------------------------
(* The ledger: a defaultdict(list) from column name to list of operations *)

\* the list stored under key c, or the empty list when c is no key
Elaborations(fe, c) == IF c \in DOMAIN fe THEN fe[c] ELSE <<>>

\* fe[c]: reading a defaultdict inserts a missing key with an empty list
Touch(fe, c) == [k \in (DOMAIN fe) \cup {c} |-> Elaborations(fe, k)]

\* a variant of AppendOp that inserts at the front of the list
AppendOpFront(fe, c, op) ==
    [k \in (DOMAIN fe) \cup {c} |->
        IF k = c THEN <<op>> \o Elaborations(fe, k) ELSE Elaborations(fe, k)]

\* a variant of AppendOp that skips an operation the list holds already
AppendOpUnique(fe, c, op) ==
    [k \in (DOMAIN fe) \cup {c} |->
        IF k = c /\ \A i \in 1..Len(Elaborations(fe, k)) :
                        Elaborations(fe, k)[i] # op
        THEN Append(Elaborations(fe, k), op) ELSE Elaborations(fe, k)]

\* fe[c].append(op)
AppendOp(fe, c, op) ==
    [k \in (DOMAIN fe) \cup {c} |->
        IF k = c THEN Append(Elaborations(fe, k), op) ELSE Elaborations(fe, k)]

\* for c in cols: fe[c].append(op)
RECURSIVE AppendAll(_, _, _)
AppendAll(fe, cols, op) ==
    IF cols = <<>> THEN fe
    ELSE AppendAll(AppendOp(fe, Head(cols), op), Tail(cols), op)

\* set(cols) of a tuple of column names
SetOf(cols) == {cols[i] : i \in 1..Len(cols)}

\* the call record kept in last
Call(op, arg, ret, exc, col, found) ==
    [op |-> op, arg |-> arg, ret |-> ret, exc |-> exc, col |-> col,
     found |-> found]

----------------------------------------------------------------------------
(* Dataset.add_operation *)

\* a variant of IsMetadataCols that asks for one original column in md
IsMetadataColsAny(op, md) == \E i \in 1..Len(op.original_columns) :
                                 op.original_columns[i] \in md

\* is_metadata_cols after the loop over original_columns
IsMetadataCols(op, md) == \A i \in 1..Len(op.original_columns) :
                              op.original_columns[i] \in md

\* a variant of AddOperationElaborations without the loop over derived_columns
AddOperationElaborationsNoDerived(fe, op) ==
    AppendAll(fe, op.original_columns, op)

\* feature_elaborations after the two loops
AddOperationElaborations(fe, op) ==
    LET fe1 == AppendAll(fe, op.original_columns, op)
    IN  IF op.derived_columns # NoneCols
        THEN AppendAll(fe1, op.derived_columns, op)
        ELSE fe1

\* _metadata_cols after the call
AddOperationMetadata(md, op) ==
    IF op.derived_columns # NoneCols /\ IsMetadataCols(op, md)
    THEN md \cup SetOf(op.derived_columns)
    ELSE md

\* derived_columns after the call
AddOperationDerived(dc, op) ==
    IF op.derived_columns # NoneCols
    THEN dc \cup SetOf(op.derived_columns)
    ELSE dc

add_operation(op) ==
    /\ nops < MaxOps
    /\ nops' = nops + 1
    /\ IF op.original_columns = NoneCols
       THEN \* iterating over None raises TypeError before anything is changed
            /\ last' = Call("add_operation", op, <<>>, "TypeError", None, <<>>)
            /\ UNCHANGED <<feature_elaborations, metadata_cols, derived_columns>>
       ELSE /\ feature_elaborations' =
                    AddOperationElaborations(feature_elaborations, op)
            /\ metadata_cols' = AddOperationMetadata(metadata_cols, op)
            /\ derived_columns' = AddOperationDerived(derived_columns, op)
            /\ last' = Call("add_operation", op, <<>>, None, None, <<>>)
    /\ UNCHANGED <<df, feature_cols, columns_type_cache, copies>>

----------------------------------------------------------------------------
(* Dataset.find_operation_in_column *)

\* a variant of SelectedSide that looks at derived_columns first
SelectedSideDerivedFirst(q) ==
    IF q.derived_columns # NoneCols THEN "derived"
    ELSE IF q.original_columns # NoneCols THEN "original"
    ELSE "none"

\* which branch selects the list: "original", "derived" or "none"
SelectedSide(q) ==
    IF q.original_columns # NoneCols THEN "original"
    ELSE IF q.derived_columns # NoneCols THEN "derived"
    ELSE "none"

\* the tuple whose first element is the key of the list that is scanned
SelectedTuple(q) ==
    IF SelectedSide(q) = "original" THEN q.original_columns
    ELSE q.derived_columns

\* similar_operations: the entries f of the list with f == feat_operation
SimilarOperations(ops, q) ==
    SelectSeq(ops, LAMBDA f : FeatureOperationEq(f, q))

\* a variant of FindOutcome that returns the first of several matches
FindOutcomeFirst(q, col, similar) ==
    IF Len(similar) = 0
    THEN Call("find_operation_in_column", q, <<>>, None, col, similar)
    ELSE Call("find_operation_in_column", q, <<similar[1]>>, None, col, similar)

\* the outcome decided by len(similar_operations)
FindOutcome(q, col, similar) ==
    IF Len(similar) = 0
    THEN Call("find_operation_in_column", q, <<>>, None, col, similar)
    ELSE IF Len(similar) = 1
    THEN Call("find_operation_in_column", q, <<similar[1]>>, None, col, similar)
    ELSE Call("find_operation_in_column", q, <<>>,
              "MultipleOperationsFoundError", col, similar)

\* the call record of find_operation_in_column(q) on ledger fe
FindOperationInColumn(fe, q) ==
    IF SelectedSide(q) = "none"
    THEN \* a warning is logged and None is returned
         Call("find_operation_in_column", q, <<>>, None, None, <<>>)
    ELSE IF SelectedTuple(q) = <<>>
    THEN \* indexing an empty tuple
         Call("find_operation_in_column", q, <<>>, "IndexError", None, <<>>)
    ELSE LET col == SelectedTuple(q)[1]
         IN  FindOutcome(q, col, SimilarOperations(Elaborations(fe, col), q))

\* the ledger after find_operation_in_column(q): the lookup goes through the
\* defaultdict, which inserts the key
FindOperationElaborations(fe, q) ==
    IF SelectedSide(q) = "none" \/ SelectedTuple(q) = <<>>
    THEN fe
    ELSE Touch(fe, SelectedTuple(q)[1])

find_operation_in_column(q) ==
    /\ last' = FindOperationInColumn(feature_elaborations, q)
    /\ feature_elaborations' = FindOperationElaborations(feature_elaborations, q)
    /\ UNCHANGED <<df, metadata_cols, feature_cols, derived_columns,
                   columns_type_cache, nops, copies>>

----------------------------------------------------------------------------
(* get_enc_column_from_original and get_original_from_enc_column *)

\* the encoders passed to the two lookups
Encoders == {None, "E1", "E2"}

\* FeatureOperation.__init__ given a single column name where a tuple of
\* names is expected
AsColumns(name) == <<name>>

\* the query built by the lookup: side is the side that holds the name
EncQuery(side, name, encoder) ==
    IF side = "original"
    THEN FeatureOperation("CATEGORICAL_ENCODING", AsColumns(name), NoneCols, encoder)
    ELSE FeatureOperation("CATEGORICAL_ENCODING", NoneCols, AsColumns(name), encoder)

\* the columns that the lookup returns from the found operation
OtherSide(side, f) ==
    IF side = "original" THEN f.derived_columns ELSE f.original_columns

\* the call record of the lookup op(name, encoder) on ledger fe
EncLookup(op, side, fe, name, encoder) ==
    LET found == FindOperationInColumn(fe, EncQuery(side, name, encoder))
        arg == <<name, encoder>>
    IN  IF found.exc # None
        THEN Call(op, arg, NoneCols, found.exc, found.col, found.found)
        ELSE IF found.ret = <<>>
        THEN Call(op, arg, NoneCols, None, found.col, found.found)
        ELSE IF OtherSide(side, found.ret[1]) = NoneCols
        THEN \* column_name in None
             Call(op, arg, NoneCols, "TypeError", found.col, found.found)
        ELSE IF name \in SetOf(OtherSide(side, found.ret[1]))
        THEN Call(op, arg, NoneCols, None, found.col, found.found)
        ELSE Call(op, arg, OtherSide(side, found.ret[1]), None, found.col,
                  found.found)

get_enc_column_from_original(name, encoder) ==
    /\ last' = EncLookup("get_enc_column_from_original", "original",
                         feature_elaborations, name, encoder)
    /\ feature_elaborations' =
           FindOperationElaborations(feature_elaborations,
                                     EncQuery("original", name, encoder))
    /\ UNCHANGED <<df, metadata_cols, feature_cols, derived_columns,
                   columns_type_cache, nops, copies>>

get_original_from_enc_column(name, encoder) ==
    /\ last' = EncLookup("get_original_from_enc_column", "derived",
                         feature_elaborations, name, encoder)
    /\ feature_elaborations' =
           FindOperationElaborations(feature_elaborations,
                                     EncQuery("derived", name, encoder))
    /\ UNCHANGED <<df, metadata_cols, feature_cols, derived_columns,
                   columns_type_cache, nops, copies>>

----------------------------------------------------------------------------
(* The table queries: nan_columns, constant_cols, trivial_columns *)

\* the ratios passed to nan_columns, as exact fractions <<num, den>>; each of
\* them times a row count up to the bound compares with an integer in floating
\* point exactly as the fraction does
Ratios == {<<0, 1>>, <<1, 2>>, <<79, 100>>, <<4, 5>>, <<999, 1000>>, <<1, 1>>}

\* the default value of the parameter nan_ratio
DefaultNanRatio == <<1, 1>>

\* the nan_ratio that trivial_columns passes
TrivialNanRatio == <<999, 1000>>

\* sum(col.isna())
RECURSIVE SumIsNa(_)
SumIsNa(col) ==
    IF col = <<>> THEN 0
    ELSE (IF Head(col) = NaN THEN 1 ELSE 0) + SumIsNa(Tail(col))

\* self._df[c] exists for every c of cs (otherwise pandas raises KeyError)
HasColumns(d, cs) == cs \subseteq DOMAIN d.cols

\* a variant of NanColumns that compares with >=
NanColumnsAtLeast(d, fc, ratio) ==
    {c \in fc : SumIsNa(d.cols[c]) * ratio[2] >= ratio[1] * d.nrows}

\* the set built by the loop of nan_columns
NanColumns(d, fc, ratio) ==
    {c \in fc : SumIsNa(d.cols[c]) * ratio[2] > ratio[1] * d.nrows}

\* Series.nunique(dropna): the number of distinct values, the missing marker
\* being one value when dropna is False and none when it is True
NUnique(col, dropna) ==
    Cardinality({PyKey(col[i]) : i \in 1..Len(col)}
                    \ (IF dropna THEN {NaN} ELSE {}))

\* a variant of ConstantCols that leaves the missing values out of the count
ConstantColsDropNa(d, fc) == {c \in fc : NUnique(d.cols[c], TRUE) = 1}

\* the set returned by constant_cols
ConstantCols(d, fc) == {c \in fc : NUnique(d.cols[c], FALSE) = 1}

\* a variant of TrivialColumns with a nan_ratio of 0.79
TrivialColumnsLowRatio(d, fc) ==
    NanColumns(d, fc, <<79, 100>>) \cup ConstantCols(d, fc)

\* the set returned by trivial_columns
TrivialColumns(d, fc) ==
    NanColumns(d, fc, TrivialNanRatio) \cup ConstantCols(d, fc)

nan_columns(ratio) ==
    /\ last' = IF HasColumns(df, feature_cols)
               THEN Call("nan_columns", ratio,
                         NanColumns(df, feature_cols, ratio), None, None, <<>>)
               ELSE Call("nan_columns", ratio, {}, "KeyError", None, <<>>)
    /\ UNCHANGED <<df, metadata_cols, feature_cols, feature_elaborations,
                   derived_columns, columns_type_cache, nops, copies>>

constant_cols ==
    /\ last' = IF HasColumns(df, feature_cols)
               THEN Call("constant_cols", <<>>,
                         ConstantCols(df, feature_cols), None, None, <<>>)
               ELSE Call("constant_cols", <<>>, {}, "KeyError", None, <<>>)
    /\ UNCHANGED <<df, metadata_cols, feature_cols, feature_elaborations,
                   derived_columns, columns_type_cache, nops, copies>>

trivial_columns ==
    /\ last' = IF HasColumns(df, feature_cols)
               THEN Call("trivial_columns", <<>>,
                         TrivialColumns(df, feature_cols), None, None, <<>>)
               ELSE Call("trivial_columns", <<>>, {}, "KeyError", None, <<>>)
    /\ UNCHANGED <<df, metadata_cols, feature_cols, feature_elaborations,
                   derived_columns, columns_type_cache, nops, copies>>

----------------------------------------------------------------------------
(* Dataset.__init__ and the specification of the ledger *)

\* the table of the ledger model: two columns of three rows
LedgerDf == [nrows |-> 3,
             cols |-> [c \in DfCols |->
                          IF c = "a" THEN <<V1, V2, NaN>>
                          ELSE <<V1, V1, V1>>]]

\* the state after Dataset(metadata_cols=md, feature_cols=fc, df_object=d);
\* fc = NoneCols stands for feature_cols=None
DatasetInit(md, fc, d) ==
    /\ df = d
    /\ metadata_cols = md
    /\ feature_cols = IF fc = NoneCols THEN (DOMAIN d.cols) \ md ELSE SetOf(fc)
    /\ feature_elaborations = <<>>
    /\ derived_columns = {}
    /\ columns_type_cache = <<>>
    /\ nops = 0
    /\ copies = <<>>
    /\ last = Call("__init__", <<>>, <<>>, None, None, <<>>)

Init == \E md \in {{}, {"a", "b"}} : DatasetInit(md, NoneCols, LedgerDf)

Next ==
    \/ \E op \in AddOps : add_operation(op)
    \/ \E q \in QueryOps : find_operation_in_column(q)

Spec == Init /\ [][Next]_vars

----------------------------------------------------------------------------
(* The specification of the table queries *)

\* n copies of v
RECURSIVE Repeat(_, _)
Repeat(v, n) == IF n = 0 THEN <<>> ELSE <<v>> \o Repeat(v, n - 1)

\* the columns of n rows, up to the order of the rows (the queries count the
\* missing and the distinct values of a column, whatever their rows)
ColumnChoices(n) ==
    { Repeat(NaN, k[1]) \o Repeat(V1, k[2]) \o Repeat(V2, n - k[1] - k[2]) :
        k \in {x \in (0..n) \X (0..n) : x[1] + x[2] <= n} }

\* the tables of columns "a" and "b" with at most MaxRows rows
Tables ==
    UNION { { [nrows |-> n, cols |-> [c \in DfCols |-> IF c = "a" THEN ca ELSE cb]] :
                ca \in ColumnChoices(n), cb \in ColumnChoices(n) } :
            n \in 0..MaxRows }

InitTable ==
    \E d \in Tables, md \in {{}, {"b"}},
       fc \in {NoneCols, <<"a", "b">>, <<"a", "c">>} :
        DatasetInit(md, fc, d)

NextTable ==
    \/ \E ratio \in Ratios : nan_columns(ratio)
    \/ constant_cols
    \/ trivial_columns

SpecTable == InitTable /\ [][NextTable]_vars

----------------------------------------------------------------------------
(* The specification of the encoding lookups *)

\* the operations registered before the lookups: encodings of "a" into "c"
\* by two encoders, an encoding of "a" into itself, an encoding of "b" with
\* derived_columns None, an encoding of two columns, and an operation of
\* another type
EncOps ==
    { FeatureOperation("CATEGORICAL_ENCODING", <<"a">>, <<"c">>, "E1"),
      FeatureOperation("CATEGORICAL_ENCODING", <<"a">>, <<"c">>, "E2"),
      FeatureOperation("CATEGORICAL_ENCODING", <<"a">>, <<"a">>, "E1"),
      FeatureOperation("CATEGORICAL_ENCODING", <<"b">>, NoneCols, "E1"),
      FeatureOperation("CATEGORICAL_ENCODING", <<"a", "b">>, <<"c">>, "E1"),
      FeatureOperation("FILL_NA", <<"b">>, <<"c">>, None) }

InitEnc == DatasetInit({}, NoneCols, LedgerDf)

NextEnc ==
    \/ \E op \in EncOps : add_operation(op)
    \/ \E name \in Cols, encoder \in Encoders :
           get_enc_column_from_original(name, encoder)
    \/ \E name \in Cols, encoder \in Encoders :
           get_original_from_enc_column(name, encoder)

SpecEnc == InitEnc /\ [][NextEnc]_vars

----------------------------------------------------------------------------
(* _find_single_column_type and its specification *)

\* series have at most MaxSeries values
MaxSeries == 3

\* kw in str(type(r)), for the four keywords that the function looks for
KeywordInType(kw, t) ==
    \/ kw = "bool" /\ t = PyBool
    \/ kw = "str" /\ t = PyStr
    \/ kw = "float" /\ t = PyFloat
    \/ kw = "int" /\ t \in {PyInt, PyInterval}

\* the values that a series of the model is made of
SeriesCells ==
    {NaN, <<PyBool, 0>>, <<PyBool, 1>>, <<PyInt, 0>>, <<PyInt, 1>>, <<PyInt, 2>>,
     <<PyFloat, 0>>, <<PyFloat, 1>>, <<PyStr, 1>>, <<PyStr, 2>>, <<PyInterval, 1>>,
     <<PyTimestamp, 1>>}

\* df_col[df_col.notna()]
NotNa(col) == SelectSeq(col, LAMBDA r : r # NaN)

\* v == k in Python, for a cell v and a number k: a bool, an int or a float
\* equals the number of the same value, nothing else equals a number
EqualsNumber(v, k) == v[1] \in {PyBool, PyInt, PyFloat} /\ v[2] = k

\* set(notna_column) == {0, 1}
SetIsZeroOne(notna) ==
    /\ \A i \in 1..Len(notna) : EqualsNumber(notna[i], 0) \/ EqualsNumber(notna[i], 1)
    /\ \E i \in 1..Len(notna) : EqualsNumber(notna[i], 0)
    /\ \E i \in 1..Len(notna) : EqualsNumber(notna[i], 1)

\* the dictionary that the function returns
ColumnTypeDict(name, type) == [col_name |-> name, col_type |-> type]

\* a variant of SingleColumnType that looks for the numeric types first
SingleColumnTypeNumericFirst(notna) ==
    LET col_type == notna[1][1]
    IN  IF KeywordInType("float", col_type) \/ KeywordInType("int", col_type)
        THEN "numerical_col"
        ELSE IF KeywordInType("bool", col_type) \/ SetIsZeroOne(notna)
        THEN "bool_col"
        ELSE IF KeywordInType("str", col_type) THEN "string_col"
        ELSE "other_col"

\* the type found for values of one and the same type
SingleColumnType(notna) ==
    LET col_type == notna[1][1]
    IN  IF KeywordInType("bool", col_type) \/ SetIsZeroOne(notna)
        THEN "bool_col"
        ELSE IF KeywordInType("str", col_type) THEN "string_col"
        ELSE IF KeywordInType("float", col_type) \/ KeywordInType("int", col_type)
        THEN "numerical_col"
        ELSE "other_col"

\* the call record of _find_single_column_type(df_col) for a series of the
\* given name and values
FindSingleColumnType(name, col) ==
    LET notna == NotNa(col)
    IN  IF notna = <<>>
        THEN \* col_types[0] of an empty array
             Call("_find_single_column_type", <<name, col>>, <<>>,
                  "IndexError", None, <<>>)
        ELSE IF \A i \in 1..Len(notna) : notna[i][1] = notna[1][1]
        THEN Call("_find_single_column_type", <<name, col>>,
                  ColumnTypeDict(name, SingleColumnType(notna)),
                  None, None, <<>>)
        ELSE Call("_find_single_column_type", <<name, col>>,
                  ColumnTypeDict(name, "mixed_type_col"), None, None, <<>>)

find_single_column_type(name, col) ==
    /\ last' = FindSingleColumnType(name, col)
    /\ UNCHANGED <<df, metadata_cols, feature_cols, feature_elaborations,
                   derived_columns, columns_type_cache, nops, copies>>

\* the series of at most n values
RECURSIVE SeriesUpTo(_)
SeriesUpTo(n) ==
    IF n = 0 THEN {<<>>}
    ELSE SeriesUpTo(n - 1)
         \cup {Append(c, v) : c \in {x \in SeriesUpTo(n - 1) : Len(x) = n - 1},
                              v \in SeriesCells}

\* a table of one column, which holds the series
SeriesTable(name, col) == [nrows |-> Len(col), cols |-> (name :> col)]

InitType ==
    \E name \in DfCols, col \in SeriesUpTo(MaxSeries) :
        DatasetInit({}, NoneCols, SeriesTable(name, col))

\* _find_single_column_type(df[c]) for a column of the table
NextType ==
    \E c \in DOMAIN df.cols : find_single_column_type(c, df.cols[c])

SpecType == InitType /\ [][NextType]_vars

----------------------------------------------------------------------------
(* FeatureOperation.__eq__ with an operand of any class *)

\* a Python object: its class and its attributes or items
PyObject(cls, fields) == [cls |-> cls, fields |-> fields]

\* the operations compared by the model
EqOps ==
    { FeatureOperation(t, o, d, e) :
        t \in {"CATEGORICAL_ENCODING", None},
        o \in {NoneCols, <<"a">>, <<"b">>},
        d \in {NoneCols, <<"c">>},
        e \in {None, "E1"} }

\* the right operands: a FeatureOperation, or a dict with the same keys
EqOperands == {PyObject(cls, f) : cls \in {"FeatureOperation", "dict"}, f \in EqOps}

\* self == other for a FeatureOperation self: an operand of another class
\* is never equal
Equals(self, other) ==
    IF other.cls = "FeatureOperation"
    THEN FeatureOperationEq(self, other.fields)
    ELSE FALSE

featureoperation_eq(self, other) ==
    /\ last' = Call("__eq__", <<self, other>>, Equals(self, other), None,
                    None, <<>>)
    /\ UNCHANGED <<df, metadata_cols, feature_cols, feature_elaborations,
                   derived_columns, columns_type_cache, nops, copies>>

InitEq == DatasetInit({}, NoneCols, LedgerDf)

NextEq == \E self \in EqOps, other \in EqOperands : featureoperation_eq(self, other)

SpecEq == InitEq /\ [][NextEq]_vars

----------------------------------------------------------------------------
(* The classification of the columns: _columns_type *)

\* settings.CATEG_COL_THRESHOLD
CATEG_COL_THRESHOLD == 300

\* the dtype tags of a column: "category" after astype("category"), "object"
\* for a column that holds its values as they are
Dtypes == {"object", "category"}

\* the Python types of the non-missing values of a column
TypesOf(col) == {col[i][1] : i \in {j \in 1..Len(col) : col[j] # NaN}}

\* the name that pandas infers for values of the types ts: infer_dtype with
\* skipna=True on a column of dtype object, and Index.inferred_type on the
\* categories of a categorical column
InferredType(ts) ==
    IF ts = {} THEN "empty"
    ELSE IF ts = {PyBool} THEN "boolean"
    ELSE IF ts = {PyInt} THEN "integer"
    ELSE IF ts = {PyFloat} THEN "floating"
    ELSE IF ts = {PyInt, PyFloat} THEN "mixed-integer-float"
    ELSE IF ts = {PyStr} THEN "string"
    ELSE IF ts = {PyTimestamp} THEN "datetime"
    ELSE IF ts = {PyInterval} THEN "interval"
    ELSE IF PyInt \in ts THEN "mixed-integer"
    ELSE "mixed"

\* pd.api.types.infer_dtype(self._df[col], skipna=True)
InferDtype(d, col) ==
    IF d.dtype[col] = "category" THEN "categorical"
    ELSE InferredType(TypesOf(d.cols[col]))

\* PD_INFER_TYPE_MAP: the set that a column of the inferred type is added to;
\* "empty" is no key of the map
PdInferTypeMap(col_type) ==
    IF col_type = "string" THEN "str_cols"
    ELSE IF col_type \in {"floating", "integer", "mixed-integer-float",
                          "decimal", "complex", "interval"}
    THEN "numerical_cols"
    ELSE IF col_type \in {"mixed-integer", "mixed"} THEN "mixed_type_cols"
    ELSE IF col_type = "boolean" THEN "bool_cols"
    ELSE IF col_type \in {"category", "categorical"} THEN "categorical_cols"
    ELSE IF col_type \in {"bytes", "datetime64", "datetime", "date",
                          "timedelta64", "timedelta", "time", "period"}
    THEN "other_cols"
    ELSE "KeyError"

\* the columns of col_list that the first loop adds to the set of that name
InferredCols(d, col_list, name) ==
    {c \in col_list : PdInferTypeMap(InferDtype(d, c)) = name}

\* Series.count(): the number of non-missing values
Count(col) == Cardinality({i \in 1..Len(col) : col[i] # NaN})

\* a variant of IsCategorical that divides the other way round
IsCategoricalCeil(unique_val_nb, count) ==
    unique_val_nb < 7
        \/ unique_val_nb < (count + CATEG_COL_THRESHOLD - 1) \div CATEG_COL_THRESHOLD

\* the test of _get_categorical_cols on len(unique()) and count()
IsCategorical(unique_val_nb, count) ==
    unique_val_nb < 7 \/ unique_val_nb < count \div CATEG_COL_THRESHOLD

\* a variant of GetCategoricalCols that looks at every column of the table
GetCategoricalColsOfTable(d, col_list) ==
    {c \in DOMAIN d.cols :
        IsCategorical(NUnique(d.cols[c], FALSE), Count(d.cols[c]))}

\* the set returned by _get_categorical_cols(col_list); unique() keeps the
\* missing marker as one of the values
GetCategoricalCols(d, col_list) ==
    {c \in col_list : IsCategorical(NUnique(d.cols[c], FALSE), Count(d.cols[c]))}

\* a variant of Retagged that gives every column the dtype "category"
RetaggedAll(d, cats) ==
    [d EXCEPT !.dtype = [c \in DOMAIN d.dtype |-> "category"]]

\* the table after _get_categorical_cols has run on the columns of cats:
\* every one of them has the dtype "category"
Retagged(d, cats) ==
    [d EXCEPT !.dtype = [c \in DOMAIN d.dtype |->
                             IF c \in cats THEN "category" ELSE d.dtype[c]]]

\* a variant of CategoricalOfType that takes the categories of every type
\* but strings for integers
CategoricalOfTypeLenient(d, categorical_cols, t) ==
    {c \in categorical_cols :
        (InferredType(TypesOf(d.cols[c])) = "string") = (t = "string")}

\* the categorical columns whose categories have the inferred type t
CategoricalOfType(d, categorical_cols, t) ==
    {c \in categorical_cols : InferredType(TypesOf(d.cols[c])) = t}

\* a variant of MedExamColList that takes metadata_cols and constant_cols
\* from the union
MedExamColListOfUnion(numerical_cols, bool_cols, constant, md) ==
    ((numerical_cols \cup bool_cols) \ constant) \ md

\* numerical_cols | bool_cols - constant_cols - self.metadata_cols, in which
\* the differences bind tighter than the union
MedExamColList(numerical_cols, bool_cols, constant, md) ==
    numerical_cols \cup ((bool_cols \ constant) \ md)

\* the outcome of the body of _columns_type with no snapshot
NoColumnsType(exc, d) == [exc |-> exc, value |-> <<>>, df |-> d]

\* the outcome of the body of _columns_type on table d with the feature
\* columns fc and the metadata columns md: the exception, the snapshot as a
\* sequence of at most one _ColumnListByType, and the table that is left
ColumnsType(d, fc, md) ==
    IF ~HasColumns(d, fc) THEN NoColumnsType("KeyError", d)
    ELSE
    LET constant == ConstantCols(d, fc)
        col_list == fc \ constant
        str_cols == InferredCols(d, col_list, "str_cols")
        numerical_cols == InferredCols(d, col_list, "numerical_cols")
        bool_cols == InferredCols(d, col_list, "bool_cols")
        categorical_cols == InferredCols(d, col_list, "categorical_cols")
        str_categorical_cols == GetCategoricalCols(d, str_cols)
        num_categorical_cols ==
            GetCategoricalCols(Retagged(d, str_categorical_cols), numerical_cols)
        retagged == Retagged(d, str_categorical_cols \cup num_categorical_cols)
        integer_cols == CategoricalOfType(d, categorical_cols, "integer")
        string_cols == CategoricalOfType(d, categorical_cols, "string")
    IN  IF InferredCols(d, col_list, "KeyError") # {}
        THEN NoColumnsType("KeyError", d)
        ELSE IF categorical_cols # integer_cols \cup string_cols
        THEN NoColumnsType("RuntimeError", retagged)
        ELSE [exc |-> None,
              value |-> <<[mixed_type_cols |->
                               InferredCols(d, col_list, "mixed_type_cols"),
                           constant_cols |-> constant,
                           numerical_cols |->
                               (numerical_cols \cup integer_cols) \cup bool_cols,
                           med_exam_col_list |->
                               MedExamColList(numerical_cols \cup integer_cols,
                                              bool_cols, constant, md),
                           str_cols |-> str_cols \cup string_cols,
                           str_categorical_cols |->
                               str_categorical_cols \cup string_cols,
                           num_categorical_cols |->
                               num_categorical_cols \cup integer_cols,
                           bool_cols |-> bool_cols,
                           other_cols |-> InferredCols(d, col_list, "other_cols")]>>,
              df |-> retagged]

\* the value kept for _columns_type after a read: the snapshot and the column
\* sets that it was computed from
CacheEntry(fc, md, value) ==
    [feature_cols |-> fc, metadata_cols |-> md, value |-> value]

\* the outcome of a read that returns the kept snapshot: nothing is run, the
\* table and the kept value stay
KeptSnapshot(cache, d) ==
    [exc |-> None, value |-> <<cache[1].value>>, df |-> d, cache |-> cache,
     kept |-> cache]

\* the outcome of a read that runs the body of _columns_type: its snapshot is
\* kept; when the body raises, what was kept before stays
ComputedSnapshot(cache, d, fc, md) ==
    LET out == ColumnsType(d, fc, md)
    IN  [exc |-> out.exc, value |-> out.value, df |-> out.df,
         cache |-> IF out.exc = None
                   THEN <<CacheEntry(fc, md, out.value[1])>>
                   ELSE cache,
         kept |-> <<>>]

\* self._columns_type: the outcomes that a read may have. The first read runs
\* the body. The decorator lazy_property is defined in util.py, which is not
\* among the sources, and dataset.py neither discards nor checks the kept
\* snapshot; so a later read either returns the kept snapshot or runs the
\* body again, whatever the column sets are by then.
ColumnsTypeAccess(cache, d, fc, md) ==
    {ComputedSnapshot(cache, d, fc, md)}
        \cup (IF cache = <<>> THEN {} ELSE {KeptSnapshot(cache, d)})

\* the state after an access to self._columns_type with the given outcome
AccessColumnsType(out) ==
    /\ df' = out.df
    /\ columns_type_cache' = out.cache
    /\ UNCHANGED <<metadata_cols, feature_cols, feature_elaborations,
                   derived_columns, nops, copies>>

\* the call record of a read keeps in found the kept entry that the read
\* returned, and nothing when the read ran the body
columns_type ==
    \E out \in ColumnsTypeAccess(columns_type_cache, df, feature_cols,
                                 metadata_cols) :
        /\ last' = Call("_columns_type", <<>>, out.value, out.exc, None,
                        out.kept)
        /\ AccessColumnsType(out)

med_exam_col_list ==
    \E out \in ColumnsTypeAccess(columns_type_cache, df, feature_cols,
                                 metadata_cols) :
        /\ last' = Call("med_exam_col_list", <<>>,
                        IF out.exc = None THEN out.value[1].med_exam_col_list
                        ELSE {},
                        out.exc, None, out.kept)
        /\ AccessColumnsType(out)

----------------------------------------------------------------------------
(* Dataset.to_be_encoded_cat_cols *)

\* the orders in which a loop may go through the set cols
IterationOrders(cols) ==
    {order \in [1..Cardinality(cols) -> cols] :
        \A c \in cols : \E i \in 1..Cardinality(cols) : order[i] = c}

\* the loop of to_be_encoded_cat_cols over the columns of order, from the
\* ledger fe and the set found so far: get_enc_column_from_original is called
\* for each column, with no encoder; it reads the ledger, which gets an entry
\* for the column, and an exception of it ends the loop
RECURSIVE ToBeEncodedLoop(_, _, _)
ToBeEncodedLoop(fe, order, to_be_encoded) ==
    IF order = <<>>
    THEN [exc |-> None, ret |-> to_be_encoded, feature_elaborations |-> fe]
    ELSE
    LET categ_col == Head(order)
        lookup == EncLookup("get_enc_column_from_original", "original", fe,
                            categ_col, None)
        touched == FindOperationElaborations(
                       fe, EncQuery("original", categ_col, None))
    IN  IF lookup.exc # None
        THEN [exc |-> lookup.exc, ret |-> {}, feature_elaborations |-> touched]
        ELSE ToBeEncodedLoop(touched, Tail(order),
                             IF lookup.ret = NoneCols
                             THEN to_be_encoded \cup {categ_col}
                             ELSE to_be_encoded)

\* to_be_encoded_cat_cols reads self._columns_type and then looks up every
\* categorical column of the snapshot, in the order of the iteration of a set
to_be_encoded_cat_cols ==
    \E out \in ColumnsTypeAccess(columns_type_cache, df, feature_cols,
                                 metadata_cols) :
        IF out.exc # None
        THEN /\ last' = Call("to_be_encoded_cat_cols", <<>>, {}, out.exc, None,
                             out.kept)
             /\ AccessColumnsType(out)
        ELSE \E order \in IterationOrders(out.value[1].str_categorical_cols
                                  \cup out.value[1].num_categorical_cols) :
                 LET loop == ToBeEncodedLoop(feature_elaborations, order, {})
                 IN  /\ last' = Call("to_be_encoded_cat_cols", <<>>, loop.ret,
                                     loop.exc, None, out.kept)
                     /\ df' = out.df
                     /\ columns_type_cache' = out.cache
                     /\ feature_elaborations' = loop.feature_elaborations
                     /\ UNCHANGED <<metadata_cols, feature_cols,
                                    derived_columns, nops, copies>>

----------------------------------------------------------------------------
(* The specification of the classification *)

\* the classified tables have ClassRows rows
ClassRows == 7

\* a column of n rows with m missing values and then k distinct values of
\* type t, the numbers 0..k-1, the last of them repeated to the end
ColumnOf(t, k, m, n) ==
    [i \in 1..n |->
        IF i <= m THEN NaN
        ELSE IF i - m < k THEN <<t, i - m - 1>>
        ELSE <<t, k - 1>>]

\* a column of n rows that holds integers and strings in turn
MixedColumn(n) ==
    [i \in 1..n |-> IF i % 2 = 1 THEN <<PyInt, i>> ELSE <<PyStr, i>>]

\* <<distinct values, missing values>> of the columns of one type: a constant
\* column, two values, six values without and with a missing value, and
\* seven values
Shapes == {<<1, 0>>, <<2, 0>>, <<6, 0>>, <<6, 1>>, <<7, 0>>}

\* the choices of column "a", each a pair <<values, dtype>>
ColumnsA ==
    { <<ColumnOf(t, sh[1], sh[2], ClassRows), dt>> :
        t \in {PyInt, PyFloat, PyStr, PyTimestamp}, sh \in Shapes, dt \in Dtypes }
    \cup { <<ColumnOf(PyBool, 2, 0, ClassRows), "object">>,
           <<MixedColumn(ClassRows), "object">> }

\* the choices of column "b"
ColumnsB ==
    { <<ColumnOf(PyBool, 2, 0, ClassRows), "object">>,
      <<ColumnOf(PyInt, 7, 0, ClassRows), "object">>,
      <<ColumnOf(PyFloat, 2, 0, ClassRows), "object">>,
      <<ColumnOf(PyStr, 2, 0, ClassRows), "category">> }

\* the table of the columns "a" and "b" with their dtypes
ClassTable(ca, cb) ==
    [nrows |-> Len(ca[1]),
     cols |-> [c \in DfCols |-> IF c = "a" THEN ca[1] ELSE cb[1]],
     dtype |-> [c \in DfCols |-> IF c = "a" THEN ca[2] ELSE cb[2]]]

\* the operations registered between two classifications: each derives one
\* column of the table from the other, or a new column from "a"
ClassOps ==
    { FeatureOperation("FILL_NA", <<"a">>, <<"b">>, None),
      FeatureOperation("FILL_NA", <<"b">>, <<"a">>, None),
      FeatureOperation("CATEGORICAL_ENCODING", <<"a">>, <<"c">>, "E1") }

InitClass ==
    \E ca \in ColumnsA, cb \in ColumnsB, md \in {{}, {"a"}},
       fc \in {NoneCols, <<"a", "b">>} :
        DatasetInit(md, fc, ClassTable(ca, cb))

NextClass ==
    \/ columns_type
    \/ med_exam_col_list
    \/ to_be_encoded_cat_cols
    \/ \E op \in ClassOps : add_operation(op)

SpecClass == InitClass /\ [][NextClass]_vars

----------------------------------------------------------------------------
(* _get_categorical_cols on long columns *)

\* the numbers of distinct non-missing values of the long columns
UniqueChoices == {6, 7, 32, 33, 50}

\* the numbers of non-missing values of the long columns, on both sides of
\* multiples of CATEG_COL_THRESHOLD
CountChoices == {7, 8, 50, 300, 2100, 2399, 2400, 9900, 10000}

\* the long columns: strings or integers, without or with one missing value
LongColumns ==
    { ColumnOf(t, kn[1], m, kn[2] + m) :
        t \in {PyStr, PyInt}, m \in {0, 1},
        kn \in {x \in UniqueChoices \X CountChoices : x[1] <= x[2]} }

\* a table of the one column "a", of dtype object
LongTable(col) ==
    [nrows |-> Len(col), cols |-> ("a" :> col), dtype |-> ("a" :> "object")]

get_categorical_cols(col_list) ==
    /\ last' = Call("_get_categorical_cols", col_list,
                    GetCategoricalCols(df, col_list), None, None, <<>>)
    /\ df' = Retagged(df, GetCategoricalCols(df, col_list))
    /\ UNCHANGED <<metadata_cols, feature_cols, feature_elaborations,
                   derived_columns, columns_type_cache, nops, copies>>

InitCateg == \E col \in LongColumns : DatasetInit({}, NoneCols, LongTable(col))

NextCateg == \E col_list \in SUBSET (DOMAIN df.cols) : get_categorical_cols(col_list)

SpecCateg == InitCateg /\ [][NextCateg]_vars

----------------------------------------------------------------------------
(* fillna and its specification *)

\* the tables that are filled have at most FillRows rows
FillRows == 2

\* Series.fillna(value): the missing values are replaced
FillNa(col, value) ==
    [i \in DOMAIN col |-> IF col[i] = NaN THEN value ELSE col[i]]

\* the attributes of a Dataset instance
DatasetOf(d, md, fc, fe, dc) ==
    [df |-> d, metadata_cols |-> md, feature_cols |-> fc,
     feature_elaborations |-> fe, derived_columns |-> dc]

\* the arguments of fillna
FillArgs(columns, value, derived, inplace) ==
    [columns |-> columns, value |-> value, derived_columns |-> derived,
     inplace |-> inplace]

\* `if derived_columns:` is taken for a list that is neither None nor empty
DerivedGiven(derived) == derived # NoneCols /\ derived # <<>>

\* df[name] = col: the column is replaced, or added to the table
SetColumn(d, name, col) ==
    [d EXCEPT !.cols = [c \in DOMAIN d.cols \cup {name} |->
                            IF c = name THEN col ELSE d.cols[c]]]

\* the table of `dataset` after the fill; columns holds one name, which is
\* a column of the table
FilledTable(d, arg) ==
    IF DerivedGiven(arg.derived_columns)
    THEN SetColumn(d, arg.derived_columns[1],
                   FillNa(d.cols[arg.columns[1]], arg.value))
    ELSE SetColumn(d, arg.columns[1],
                   FillNa(d.cols[arg.columns[1]], arg.value))

\* the exception that fillna raises for these arguments on table d
FillNaError(d, arg) ==
    IF Len(arg.columns) # 1 THEN "ValueError"
    ELSE IF DerivedGiven(arg.derived_columns) /\ Len(arg.derived_columns) # 1
    THEN "ValueError"
    ELSE IF arg.columns[1] \notin DOMAIN d.cols THEN "KeyError"
    ELSE None

fillna(columns, value, derived, inplace) ==
    LET arg == FillArgs(columns, value, derived, inplace)
        exc == FillNaError(df, arg)
    IN  /\ last' =
               IF exc # None
               THEN Call("fillna", arg, <<>>, exc, None, <<>>)
               ELSE IF inplace
               THEN Call("fillna", arg, <<>>, None, None, <<>>)
               ELSE \* the deep copy of self, filled
                    Call("fillna", arg,
                         <<DatasetOf(FilledTable(df, arg), metadata_cols,
                                     feature_cols, feature_elaborations,
                                     derived_columns)>>,
                         None, None, <<>>)
        /\ df' = IF exc = None /\ inplace THEN FilledTable(df, arg) ELSE df
        /\ UNCHANGED <<metadata_cols, feature_cols, feature_elaborations,
                       derived_columns, columns_type_cache, nops, copies>>

\* the tables of columns "a" and "b" with one row up to FillRows rows
FillTables ==
    UNION { { [nrows |-> n, cols |-> [c \in DfCols |-> IF c = "a" THEN ca ELSE cb]] :
                ca \in ColumnChoices(n), cb \in ColumnChoices(n) } :
            n \in 1..FillRows }

\* the lists passed as columns and as derived_columns
FillColumns == {<<>>, <<"a">>, <<"a", "b">>}

FillDerived == {NoneCols, <<>>, <<"b">>, <<"c">>, <<"b", "c">>}

InitFill == \E d \in FillTables : DatasetInit({}, NoneCols, d)

NextFill ==
    \E columns \in FillColumns, derived \in FillDerived, inplace \in BOOLEAN :
        fillna(columns, V2, derived, inplace)

SpecFill == InitFill /\ [][NextFill]_vars

----------------------------------------------------------------------------
(* get_encoded_string_values_map and the specification of the queries *)

\* the call record of get_encoded_string_values_map(name) on ledger fe: None
\* when the list of the column is empty (the IndexError is caught), else the
\* encoded_string_values_map attribute of the first operation of the list,
\* which the record stands for by that operation in found
EncodedStringValuesMap(fe, name) ==
    IF Elaborations(fe, name) = <<>>
    THEN Call("get_encoded_string_values_map", name, <<>>, None, name, <<>>)
    ELSE Call("get_encoded_string_values_map", name,
              <<"encoded_string_values_map">>, None, name,
              <<Elaborations(fe, name)[1]>>)

get_encoded_string_values_map(name) ==
    /\ last' = EncodedStringValuesMap(feature_elaborations, name)
    /\ feature_elaborations' = Touch(feature_elaborations, name)
    /\ UNCHANGED <<df, metadata_cols, feature_cols, derived_columns,
                   columns_type_cache, nops, copies>>

\* the operations registered between the queries
LookupOps ==
    { FeatureOperation("CATEGORICAL_ENCODING", <<"a">>, <<"c">>, "E1"),
      FeatureOperation("CATEGORICAL_ENCODING", <<"b">>, NoneCols, "E1"),
      FeatureOperation("FILL_NA", <<"a">>, <<"b">>, None) }

\* the operations looked up: by original column, by derived column, by neither
LookupQueries ==
    { FeatureOperation("CATEGORICAL_ENCODING", <<"a">>, NoneCols, None),
      FeatureOperation("FILL_NA", NoneCols, <<"b">>, None),
      FeatureOperation("FILL_NA", NoneCols, NoneCols, None) }

InitQuery == \E md \in {{}, {"a"}} : DatasetInit(md, NoneCols, LedgerDf)

NextQuery ==
    \/ \E op \in LookupOps : add_operation(op)
    \/ \E q \in LookupQueries : find_operation_in_column(q)
    \/ \E name \in Cols, encoder \in {None, "E1"} :
           get_enc_column_from_original(name, encoder)
    \/ \E name \in Cols, encoder \in {None, "E1"} :
           get_original_from_enc_column(name, encoder)
    \/ \E name \in Cols : get_encoded_string_values_map(name)

SpecQuery == InitQuery /\ [][NextQuery]_vars

----------------------------------------------------------------------------
(* The specification of registering an operation and looking it up *)

\* the operations that are registered and then looked up as they are: an
\* encoding of "a" into "c", one of "a" into itself, a fill of "a" and "b"
\* into "b", and fills of "b" with the derived column "c" and with None
TripOps ==
    { FeatureOperation("CATEGORICAL_ENCODING", <<"a">>, <<"c">>, "E1"),
      FeatureOperation("CATEGORICAL_ENCODING", <<"a">>, <<"a">>, "E1"),
      FeatureOperation("FILL_NA", <<"a", "b">>, <<"b">>, None),
      FeatureOperation("FILL_NA", <<"b">>, <<"c">>, None),
      FeatureOperation("FILL_NA", <<"b">>, NoneCols, None) }

InitTrip == DatasetInit({}, NoneCols, LedgerDf)

NextTrip ==
    \/ \E op \in TripOps : add_operation(op)
    \/ \E q \in TripOps : find_operation_in_column(q)

SpecTrip == InitTrip /\ [][NextTrip]_vars

----------------------------------------------------------------------------
(* copy_dataset_with_new_df and the specification of the copies *)

\* copy.copy(dataset) with _df set to new_pandas_df: the new instance gets
\* the attribute values of dataset. Its sets are held here as they are; its
\* feature_elaborations attribute is the dict object of dataset itself, the
\* variable feature_elaborations, since a shallow copy copies no attribute.
CopyWithNewDf(d, md, fc, dc, new_pandas_df) ==
    [df |-> new_pandas_df, metadata_cols |-> md, feature_cols |-> fc,
     derived_columns |-> dc]

copy_dataset_with_new_df(new_pandas_df) ==
    /\ copies = <<>>
    /\ copies' = <<CopyWithNewDf(df, metadata_cols, feature_cols,
                                 derived_columns, new_pandas_df)>>
    /\ last' = Call("copy_dataset_with_new_df", new_pandas_df, <<>>, None,
                    None, <<>>)
    /\ UNCHANGED <<df, metadata_cols, feature_cols, feature_elaborations,
                   derived_columns, columns_type_cache, nops>>

\* add_operation(op) called on the Dataset made by copy_dataset_with_new_df
copy_add_operation(op) ==
    /\ copies # <<>>
    /\ nops < MaxOps
    /\ nops' = nops + 1
    /\ IF op.original_columns = NoneCols
       THEN /\ last' = Call("copy.add_operation", op, <<>>, "TypeError", None,
                            <<>>)
            /\ UNCHANGED <<feature_elaborations, copies>>
       ELSE /\ feature_elaborations' =
                   AddOperationElaborations(feature_elaborations, op)
            /\ copies' =
                   <<[copies[1] EXCEPT
                        !.metadata_cols =
                            AddOperationMetadata(copies[1].metadata_cols, op),
                        !.derived_columns =
                            AddOperationDerived(copies[1].derived_columns, op)]>>
            /\ last' = Call("copy.add_operation", op, <<>>, None, None, <<>>)
    /\ UNCHANGED <<df, metadata_cols, feature_cols, derived_columns,
                   columns_type_cache>>

\* the operations registered on the two instances
CopyOps ==
    { FeatureOperation("CATEGORICAL_ENCODING", <<"a">>, <<"c">>, "E1"),
      FeatureOperation("FILL_NA", <<"b">>, <<"b">>, None),
      FeatureOperation("FILL_NA", <<"a", "b">>, NoneCols, None),
      FeatureOperation("FILL_NA", NoneCols, <<"c">>, None) }

\* the tables given to copy_dataset_with_new_df: the table of the instance
\* with a row less, and with column "b" lost
NewDfs ==
    { [nrows |-> 2, cols |-> [c \in DfCols |-> SubSeq(LedgerDf.cols[c], 1, 2)]],
      [nrows |-> 3, cols |-> [c \in {"a"} |-> LedgerDf.cols[c]]] }

InitCopy == \E md \in {{}, {"a"}, {"b"}} : DatasetInit(md, NoneCols, LedgerDf)

NextCopy ==
    \/ \E op \in CopyOps : add_operation(op)
    \/ \E new_pandas_df \in NewDfs : copy_dataset_with_new_df(new_pandas_df)
    \/ \E op \in CopyOps : copy_add_operation(op)

SpecCopy == InitCopy /\ [][NextCopy]_vars

----------------------------------------------------------------------------
(* Helpers of the properties *)

\* s is a prefix of t
IsPrefix(s, t) == Len(s) <= Len(t) /\ \A i \in 1..Len(s) : s[i] = t[i]

\* the elements of a sequence
Range(s) == {s[i] : i \in 1..Len(s)}

\* the columns that an operation names, original and derived
NamedColumns(op) ==
    (IF op.original_columns = NoneCols THEN {} ELSE Range(op.original_columns))
    \cup
    (IF op.derived_columns = NoneCols THEN {} ELSE Range(op.derived_columns))

\* how many times c occurs in the tuple cols (none when cols is None)
Occurrences(cols, c) ==
    IF cols = NoneCols THEN 0
    ELSE Cardinality({i \in 1..Len(cols) : cols[i] = c})

\* the positions of the list of column c whose entry equals the query q
MatchingPositions(c, q) ==
    {i \in 1..Len(Elaborations(feature_elaborations, c)) :
        FeatureOperationEq(Elaborations(feature_elaborations, c)[i], q)}

\* the last call is a completed add_operation
AddedLast == last.op = "add_operation" /\ last.exc = None

\* the last call is find_operation_in_column
FoundLast == last.op = "find_operation_in_column"

----------------------------------------------------------------------------
(* Properties of the ledger, checked under Spec *)

\* C1: fan-out consistency. Every operation held in the ledger, and the
\* operation that the last completed add_operation registered, is in the list
\* of every column named in its original columns and in its derived columns.
C1_FanOut ==
    /\ \A c \in DOMAIN feature_elaborations :
         \A i \in 1..Len(feature_elaborations[c]) :
            \A n \in NamedColumns(feature_elaborations[c][i]) :
               feature_elaborations[c][i]
                   \in Range(Elaborations(feature_elaborations, n))
    /\ AddedLast =>
         \A n \in NamedColumns(last.arg) :
            last.arg \in Range(Elaborations(feature_elaborations, n))

\* an operation with two original columns and a derived one has been
\* registered and sits in the three lists
C1_Witness ==
    /\ AddedLast
    /\ last.arg.original_columns = <<"a", "b">>
    /\ last.arg.derived_columns = <<"c">>
    /\ \A n \in {"a", "b", "c"} :
          last.arg \in Range(Elaborations(feature_elaborations, n))

\* C2: find_operation_in_column decides by the number of entries of the
\* scanned list that equal the query: none gives None, exactly one gives that
\* entry, more than one raises MultipleOperationsFoundError and returns nothing.
C2_FindByCount ==
    (FoundLast /\ last.col # None) =>
        LET ops == Elaborations(feature_elaborations, last.col)
            m   == MatchingPositions(last.col, last.arg)
        IN  /\ Cardinality(m) = 0 => last.exc = None /\ last.ret = <<>>
            /\ Cardinality(m) = 1 =>
                  /\ last.exc = None
                  /\ \E i \in m : last.ret = <<ops[i]>>
            /\ Cardinality(m) > 1 =>
                  /\ last.exc = "MultipleOperationsFoundError"
                  /\ last.ret = <<>>

\* a lookup met two matching entries and raised
C2_Witness ==
    /\ FoundLast
    /\ last.col = "a"
    /\ Cardinality(MatchingPositions("a", last.arg)) = 2
    /\ last.exc = "MultipleOperationsFoundError"

\* C3 as stated: the list is that of the first original column when the
\* original columns are non-empty, else that of the first derived column when
\* those are non-empty, and a query with neither fails with an error.
NonEmptyCols(cols) == cols # NoneCols /\ cols # <<>>

C3_AsStated ==
    FoundLast =>
        LET q == last.arg
        IN  /\ NonEmptyCols(q.original_columns) =>
                  last.col = q.original_columns[1]
            /\ (~NonEmptyCols(q.original_columns)
                    /\ NonEmptyCols(q.derived_columns)) =>
                  last.col = q.derived_columns[1]
            /\ (~NonEmptyCols(q.original_columns)
                    /\ ~NonEmptyCols(q.derived_columns)) =>
                  last.exc # None

\* C3 (amended): the list is that of the first original column when the
\* original columns are specified (not None), else that of the first derived
\* column when those are specified; an empty tuple on the consulted side raises
\* IndexError; a query with neither side specified returns None without an
\* error and scans no list.
C3_Resolve ==
    FoundLast =>
        LET q == last.arg
        IN  /\ NonEmptyCols(q.original_columns) =>
                  /\ last.col = q.original_columns[1]
                  /\ last.exc \in {None, "MultipleOperationsFoundError"}
            /\ q.original_columns = <<>> =>
                  last.exc = "IndexError" /\ last.col = None
            /\ (q.original_columns = NoneCols
                    /\ NonEmptyCols(q.derived_columns)) =>
                  /\ last.col = q.derived_columns[1]
                  /\ last.exc \in {None, "MultipleOperationsFoundError"}
            /\ (q.original_columns = NoneCols /\ q.derived_columns = <<>>) =>
                  last.exc = "IndexError" /\ last.col = None
            /\ (q.original_columns = NoneCols
                    /\ q.derived_columns = NoneCols) =>
                  last.exc = None /\ last.ret = <<>> /\ last.col = None

\* a query with neither side specified returned None, and a query by its
\* derived column found the operation registered under it
C3_Witness ==
    /\ FoundLast
    /\ last.arg.original_columns = NoneCols
    /\ last.arg.derived_columns = <<"c">>
    /\ last.col = "c"
    /\ Len(last.ret) = 1
    /\ last.ret[1].original_columns = <<"a">>

\* C4: metadata propagation. A completed add_operation(op) whose original
\* columns are all in metadata_cols before the call leaves every derived column
\* of op in metadata_cols; one with an original column outside metadata_cols
\* leaves metadata_cols unchanged; both leave every derived column of op in
\* derived_columns.
C4_Step ==
    (last'.op = "add_operation" /\ last'.exc = None) =>
        LET op  == last'.arg
            der == IF op.derived_columns = NoneCols THEN {}
                   ELSE Range(op.derived_columns)
        IN  /\ Range(op.original_columns) \subseteq metadata_cols =>
                  der \subseteq metadata_cols'
            /\ ~(Range(op.original_columns) \subseteq metadata_cols) =>
                  metadata_cols' = metadata_cols
            /\ der \subseteq derived_columns'

C4_MetadataPropagation == [][C4_Step]_vars

\* an operation from two metadata columns to "c" has made "c" a metadata
\* column
C4_Witness ==
    /\ AddedLast
    /\ last.arg.original_columns = <<"a", "b">>
    /\ last.arg.derived_columns = <<"c">>
    /\ {"a", "b", "c"} \subseteq metadata_cols
    /\ "c" \in derived_columns

\* C5: the ledger is append-only. In every step no key is removed and the list
\* of every column extends its former value; what a completed add_operation
\* appends to a list are copies of its operation, so that the order of a list is
\* the order of registration.
C5_Step ==
    /\ DOMAIN feature_elaborations \subseteq DOMAIN feature_elaborations'
    /\ \A c \in Cols :
         LET old == Elaborations(feature_elaborations, c)
             new == Elaborations(feature_elaborations', c)
         IN  /\ IsPrefix(old, new)
             /\ \A i \in (Len(old) + 1)..Len(new) :
                   last'.op = "add_operation" /\ new[i] = last'.arg

C5_AppendOnly == [][C5_Step]_vars

\* a list holds two different operations, the second registered after the first
C5_Witness ==
    /\ AddedLast
    /\ Len(Elaborations(feature_elaborations, "a")) = 2
    /\ feature_elaborations["a"][2] = last.arg
    /\ feature_elaborations["a"][1] # last.arg

\* C6: no de-duplication. A completed add_operation(op) lengthens the list of
\* every column by the number of times op names the column, whether or not an
\* equal operation is in the list already; and a lookup whose scanned list holds
\* the same matching operation at two positions raises
\* MultipleOperationsFoundError, which reports both.
C6_Step ==
    (last'.op = "add_operation" /\ last'.exc = None) =>
        \A c \in Cols :
            Len(Elaborations(feature_elaborations', c)) =
                Len(Elaborations(feature_elaborations, c))
                + Occurrences(last'.arg.original_columns, c)
                + Occurrences(last'.arg.derived_columns, c)

C6_Ambiguous ==
    (FoundLast /\ last.col # None) =>
        LET ops == Elaborations(feature_elaborations, last.col)
        IN  \A i, j \in MatchingPositions(last.col, last.arg) :
                (i < j /\ ops[i] = ops[j]) =>
                    /\ last.exc = "MultipleOperationsFoundError"
                    /\ \E k, l \in 1..Len(last.found) :
                          k < l /\ last.found[k] = ops[i]
                                /\ last.found[l] = ops[j]

C6_NoDedup == [][C6_Step]_vars /\ []C6_Ambiguous

\* the same operation was registered twice on "a", and the lookup by "a"
\* raised, reporting the two entries
C6_Witness ==
    /\ FoundLast
    /\ last.col = "a"
    /\ Len(Elaborations(feature_elaborations, "a")) = 2
    /\ feature_elaborations["a"][1] = feature_elaborations["a"][2]
    /\ last.exc = "MultipleOperationsFoundError"
    /\ Len(last.found) = 2

----------------------------------------------------------------------------
(* Properties of the table queries, checked under SpecTable *)

\* the number of missing values of table column c
MissingCount(c) == Cardinality({i \in 1..Len(df.cols[c]) : df.cols[c][i] = NaN})

\* the non-missing values of table column c
NonMissing(c) == Range(df.cols[c]) \ {NaN}

\* column c has rows, all of them missing
FullyMissing(c) == df.nrows > 0 /\ MissingCount(c) = df.nrows

\* the last call is q and it returned
Returned(q) == last.op = q /\ last.exc = None

\* C7 as stated: with the default ratio 1, nan_columns returns exactly the
\* feature columns whose values are all missing.
C7_AsStated ==
    (Returned("nan_columns") /\ last.arg = DefaultNanRatio) =>
        last.ret = {c \in feature_cols : FullyMissing(c)}

\* C8: nan_columns(ratio) returns exactly the feature columns whose number of
\* missing values is greater than ratio times the number of rows, and nothing
\* outside feature_cols.
C8_NanColumns ==
    Returned("nan_columns") =>
        /\ last.ret \subseteq feature_cols
        /\ \A c \in DOMAIN df.cols :
              c \in last.ret <=>
                  /\ c \in feature_cols
                  /\ MissingCount(c) * last.arg[2] > last.arg[1] * df.nrows

\* nan_columns(0.79) returned the feature column with 8 missing values of 10
\* and not the metadata column "b", whose values are all missing
C8_Witness ==
    /\ Returned("nan_columns")
    /\ last.arg = <<79, 100>>
    /\ df.nrows = 10
    /\ MissingCount("a") = 8
    /\ FullyMissing("b")
    /\ feature_cols = {"a"}
    /\ "b" \in metadata_cols
    /\ last.ret = {"a"}

\* C9: trivial_columns is nan_columns(0.999) united with constant_cols: a
\* feature column is returned iff its missing values are more than 0.999 times
\* the rows or it holds one repeated value; a column with 80% of missing values
\* and two or more distinct other values is not returned.
C9_TrivialColumns ==
    Returned("trivial_columns") =>
        /\ \A c \in DOMAIN df.cols :
              c \in last.ret <=>
                  /\ c \in feature_cols
                  /\ \/ MissingCount(c) * 1000 > 999 * df.nrows
                     \/ Cardinality(Range(df.cols[c])) = 1
        /\ last.ret \subseteq DOMAIN df.cols
        /\ \A c \in feature_cols :
              (MissingCount(c) * 5 = 4 * df.nrows
                  /\ Cardinality(NonMissing(c)) >= 2) => c \notin last.ret

\* trivial_columns left out a feature column with 8 missing values of 10 and
\* two distinct other values, and returned the constant column beside it
C9_Witness ==
    /\ Returned("trivial_columns")
    /\ df.nrows = 10
    /\ MissingCount("a") = 8
    /\ Cardinality(NonMissing("a")) = 2
    /\ feature_cols = {"a", "b"}
    /\ last.ret = {"b"}

\* C10: constant_cols is the set of feature columns with exactly one distinct
\* value, the missing marker counting as a value: a fully missing column is
\* returned, a column of one repeated value without missing entries is
\* returned, a column of one repeated value with missing entries is not.
C10_ConstantCols ==
    Returned("constant_cols") =>
        /\ \A c \in DOMAIN df.cols :
              c \in last.ret <=>
                  /\ c \in feature_cols
                  /\ df.nrows > 0
                  /\ \E v \in Values : \A i \in 1..df.nrows : df.cols[c][i] = v
        /\ last.ret \subseteq DOMAIN df.cols
        /\ \A c \in feature_cols :
              /\ FullyMissing(c) => c \in last.ret
              /\ (MissingCount(c) = 0 /\ Cardinality(NonMissing(c)) = 1) =>
                    c \in last.ret
              /\ (MissingCount(c) > 0 /\ Cardinality(NonMissing(c)) = 1) =>
                    c \notin last.ret

\* constant_cols returned a fully missing column and left out a column of one
\* repeated value with a missing entry
C10_Witness ==
    /\ Returned("constant_cols")
    /\ df.nrows = 3
    /\ feature_cols = {"a", "b"}
    /\ FullyMissing("a")
    /\ MissingCount("b") = 1
    /\ Cardinality(NonMissing("b")) = 1
    /\ last.ret = {"a"}

----------------------------------------------------------------------------
(* Properties of _find_single_column_type, checked under SpecType *)

\* the last call is _find_single_column_type
TypedLast == last.op = "_find_single_column_type"

\* the non-missing values of the series of the last call
TypedValues == Range(last.arg[2]) \ {NaN}

\* the Python types of those values
TypedTypes == {v[1] : v \in TypedValues}

\* C16 as stated: on a series without a non-missing value the function does
\* not raise and returns a result that carries the name of the series.
C16_AsStated ==
    (TypedLast /\ TypedValues = {}) =>
        last.exc = None /\ last.ret.col_name = last.arg[1]

\* C17: on a series with a non-missing value the function returns, and the
\* result carries the name of the series; values of several types give
\* mixed_type_col; otherwise booleans, or numbers whose set is {0, 1}, give
\* bool_col; otherwise strings give string_col, integers, floats and intervals
\* give numerical_col, and any other type gives other_col.
C17_ColumnType ==
    (TypedLast /\ TypedValues # {}) =>
        /\ last.exc = None
        /\ last.ret.col_name = last.arg[1]
        /\ last.ret.col_type =
             IF Cardinality(TypedTypes) > 1 THEN "mixed_type_col"
             ELSE IF TypedTypes = {PyBool}
                     \/ (TypedTypes \subseteq {PyInt, PyFloat}
                           /\ {v[2] : v \in TypedValues} = {0, 1})
             THEN "bool_col"
             ELSE IF TypedTypes = {PyStr} THEN "string_col"
             ELSE IF TypedTypes \subseteq {PyInt, PyFloat, PyInterval}
             THEN "numerical_col"
             ELSE "other_col"

\* integers 0 and 1 beside a missing value gave bool_col under the name "b"
C17_Witness ==
    /\ TypedLast
    /\ last.arg = <<"b", <<<<PyInt, 1>>, NaN, <<PyInt, 0>>>>>>
    /\ last.ret = ColumnTypeDict("b", "bool_col")

----------------------------------------------------------------------------
(* Properties of FeatureOperation.__eq__, checked under SpecEq *)

FieldNames == {"operation_type", "original_columns", "derived_columns", "encoder"}

\* field k of operation f is unspecified
Unspecified(f, k) ==
    IF k \in {"original_columns", "derived_columns"}
    THEN f[k] = NoneCols
    ELSE f[k] = None

\* the fields that are specified on both sides with different values
Clashes(f, g) ==
    {k \in FieldNames : ~Unspecified(f, k) /\ ~Unspecified(g, k) /\ f[k] # g[k]}

\* C19: a comparison never raises; a FeatureOperation equals a
\* FeatureOperation with the same fields, and one that differs from it only
\* in fields left unspecified on either side; it differs from one that has
\* another value in a field specified on both sides, and from any object
\* that is not a FeatureOperation, whatever its fields.
C19_Equality ==
    last.op = "__eq__" =>
        LET self == last.arg[1]
            other == last.arg[2]
        IN  /\ last.exc = None
            /\ last.ret \in BOOLEAN
            /\ other.cls # "FeatureOperation" => last.ret = FALSE
            /\ (other.cls = "FeatureOperation" /\ other.fields = self)
                   => last.ret = TRUE
            /\ (other.cls = "FeatureOperation" /\ Clashes(self, other.fields) = {})
                   => last.ret = TRUE
            /\ (other.cls = "FeatureOperation" /\ Clashes(self, other.fields) # {})
                   => last.ret = FALSE

\* an operation with derived_columns None was found equal to one that
\* differs from it in that field only
C19_Witness ==
    /\ last.op = "__eq__"
    /\ last.arg[1] = FeatureOperation("CATEGORICAL_ENCODING", <<"a">>, NoneCols, "E1")
    /\ last.arg[2] = PyObject("FeatureOperation",
                              FeatureOperation("CATEGORICAL_ENCODING", <<"a">>, <<"c">>, "E1"))
    /\ last.ret = TRUE

----------------------------------------------------------------------------
(* Properties of the two encoding lookups, checked under SpecEnc *)

\* the last call is one of the two lookups
EncLast ==
    last.op \in {"get_enc_column_from_original", "get_original_from_enc_column"}

\* the columns of operation f on the side that holds the looked up name, and
\* on the side that is returned
EncKeySide(f) ==
    IF last.op = "get_enc_column_from_original"
    THEN f.original_columns ELSE f.derived_columns

EncReturnedSide(f) ==
    IF last.op = "get_enc_column_from_original"
    THEN f.derived_columns ELSE f.original_columns

\* the registered encodings of the looked up column that the query matches
EncMatches ==
    SelectSeq(Elaborations(feature_elaborations, last.arg[1]),
              LAMBDA f :
                  /\ f.operation_type = "CATEGORICAL_ENCODING"
                  /\ EncKeySide(f) \in {NoneCols, <<last.arg[1]>>}
                  /\ last.arg[2] = None \/ f.encoder = None
                        \/ f.encoder = last.arg[2])

\* C20 as stated: a lookup that matches no registered encoding returns None;
\* a lookup that matches one returns None when that operation lists the name
\* on the returned side and the columns of the returned side otherwise; a
\* returned tuple never contains the name.
C20_AsStated ==
    EncLast =>
        /\ Len(EncMatches) = 0 => last.exc = None /\ last.ret = NoneCols
        /\ Len(EncMatches) = 1 =>
              /\ last.exc = None
              /\ last.ret = IF last.arg[1] \in SetOf(EncReturnedSide(EncMatches[1]))
                            THEN NoneCols
                            ELSE EncReturnedSide(EncMatches[1])
        /\ last.ret # NoneCols => last.arg[1] \notin SetOf(last.ret)

----------------------------------------------------------------------------
(* Properties of the classification, checked under SpecClass *)

\* the calls that read self._columns_type
BucketQueries == {"_columns_type", "med_exam_col_list"}

\* the calls that read self._columns_type, to_be_encoded_cat_cols included,
\* which goes on to the ledger after the read
SnapshotReads == BucketQueries \cup {"to_be_encoded_cat_cols"}

\* the exceptions of the body of _columns_type
BodyErrors == {"KeyError", "RuntimeError"}

\* the last call read self._columns_type and got a snapshot
Classified == last.op \in BucketQueries /\ last.exc = None

\* the snapshot that the last call got
Snapshot == columns_type_cache[1].value

\* the columns that the snapshot holds as categorical
CategoricalCols(snap) == snap.str_categorical_cols \cup snap.num_categorical_cols

\* C11 as stated: med_exam_col_list is the numerical and boolean columns
\* without the constant columns and without the metadata columns, so it
\* holds no metadata column and no constant column.
C11_AsStated ==
    (last.op = "med_exam_col_list" /\ last.exc = None) =>
        /\ last.ret = (Snapshot.numerical_cols \ Snapshot.constant_cols)
                          \ metadata_cols
        /\ last.ret \cap metadata_cols = {}
        /\ last.ret \cap ConstantCols(df, feature_cols) = {}

\* the column holds strings only or numbers only
StringOrNumeric(col) ==
    TypesOf(col) = {PyStr}
        \/ (TypesOf(col) # {} /\ TypesOf(col) \subseteq {PyInt, PyFloat})

\* C13 as stated: the detector counts the distinct non-missing values, so
\* in a snapshot every non-constant feature column of strings or of numbers
\* with fewer than seven distinct non-missing values is categorical, with or
\* without missing values.
C13_AsStated ==
    Classified =>
        \A c \in feature_cols \ Snapshot.constant_cols :
            (StringOrNumeric(df.cols[c]) /\ NUnique(df.cols[c], TRUE) < 7)
                => c \in CategoricalCols(Snapshot)

\* C14: a step changes no value and no row count of the table; only a read
\* of self._columns_type changes a dtype, and only to "category"; when the
\* read gets a snapshot, the columns that the snapshot holds as categorical
\* have the dtype "category" and every other column has the dtype it had;
\* the read changes neither the column sets nor, unless it is the read of
\* to_be_encoded_cat_cols, the ledger.
C14_Step ==
    /\ df'.cols = df.cols
    /\ df'.nrows = df.nrows
    /\ \A c \in DOMAIN df.dtype :
           df'.dtype[c] # df.dtype[c] =>
               last'.op \in SnapshotReads /\ df'.dtype[c] = "category"
    /\ (last'.op \in SnapshotReads /\ last'.exc \notin BodyErrors) =>
           \A c \in DOMAIN df.dtype :
               df'.dtype[c] =
                   IF c \in CategoricalCols(columns_type_cache'[1].value)
                   THEN "category" ELSE df.dtype[c]
    /\ last'.op \in SnapshotReads =>
           UNCHANGED <<metadata_cols, feature_cols, derived_columns>>
    /\ last'.op \in BucketQueries => UNCHANGED feature_elaborations

C14_RetagOnly == [][C14_Step]_vars

\* a column of floats has the dtype "category", which only the detector
\* gives it in a snapshot, and a column of seven integers is still "object"
C14_Witness ==
    /\ Classified
    /\ TypesOf(df.cols["a"]) = {PyFloat}
    /\ df.dtype["a"] = "category"
    /\ "a" \in Snapshot.num_categorical_cols
    /\ df.cols["b"] = ColumnOf(PyInt, 7, 0, ClassRows)
    /\ "b" \in Snapshot.numerical_cols \ CategoricalCols(Snapshot)
    /\ df.dtype["b"] = "object"

\* the step reads self._columns_type and runs its body
ClassificationStep ==
    /\ last'.op \in SnapshotReads
    /\ last'.found = <<>>
    /\ last' # last

\* the non-constant feature columns that have the dtype "category" before
\* the step
Pretagged ==
    {c \in feature_cols \ ConstantCols(df, feature_cols) :
        df.dtype[c] = "category"}

\* a classification step treats the columns tagged before it as follows,
\* where numeric is the set of the sets of element types that count as
\* numeric: a column with an element type that is neither numeric nor string
\* makes the step fail with RuntimeError and leave no snapshot; otherwise the
\* step gets a snapshot that holds the numeric ones as numerical and as
\* numerical categorical, and the string ones as string and as string
\* categorical
PretaggedStep(numeric) ==
    ClassificationStep =>
        IF \E c \in Pretagged : TypesOf(df.cols[c]) \notin numeric \cup {{PyStr}}
        THEN /\ last'.exc = "RuntimeError"
             /\ columns_type_cache' = columns_type_cache
        ELSE /\ last'.exc \notin BodyErrors
             /\ \A c \in Pretagged :
                    LET snap == columns_type_cache'[1].value
                    IN  IF TypesOf(df.cols[c]) = {PyStr}
                        THEN c \in snap.str_categorical_cols \cap snap.str_cols
                        ELSE c \in snap.num_categorical_cols \cap snap.numerical_cols

\* C15 as stated: columns of integers and columns of floats count as numeric.
C15_AsStated == [][PretaggedStep({{PyInt}, {PyFloat}, {PyInt, PyFloat}})]_vars

\* C15: for the non-constant feature columns tagged categorical before a
\* classification, a column of integers is placed in num_categorical and in
\* numerical, a column of strings in str_categorical and in str, and a column
\* of any other element type, floats included, makes the classification fail
\* with RuntimeError and leave no snapshot.
C15_Pretagged == [][PretaggedStep({{PyInt}})]_vars

\* a column of seven integers, which the detector does not tag, has the
\* dtype "category" and is held as numerical and as numerical categorical
C15_Witness ==
    /\ Classified
    /\ df.cols["a"] = ColumnOf(PyInt, 7, 0, ClassRows)
    /\ df.dtype["a"] = "category"
    /\ "a" \in Snapshot.num_categorical_cols \cap Snapshot.numerical_cols

\* the buckets of which a feature column is in exactly one; numerical_cols
\* is the exposed bucket, which holds the boolean columns too
PartitionBuckets ==
    {"constant_cols", "mixed_type_cols", "str_cols", "other_cols",
     "numerical_cols"}

\* the elementary and the categorical buckets
TypeBuckets ==
    {"mixed_type_cols", "str_cols", "other_cols", "numerical_cols", "bool_cols",
     "str_categorical_cols", "num_categorical_cols"}

\* C26: in a computed snapshot every feature column is in exactly one of the
\* buckets constant, mixed-type, string, other and numerical; no constant
\* column is in an elementary or categorical bucket; bool_cols is within
\* numerical_cols, str_categorical_cols within str_cols and
\* num_categorical_cols within numerical_cols; and every bucket holds feature
\* columns only.
C26_Partition ==
    columns_type_cache # <<>> =>
        /\ \A c \in feature_cols :
               Cardinality({b \in PartitionBuckets : c \in Snapshot[b]}) = 1
        /\ \A b \in TypeBuckets : Snapshot[b] \cap Snapshot.constant_cols = {}
        /\ Snapshot.bool_cols \subseteq Snapshot.numerical_cols
        /\ Snapshot.str_categorical_cols \subseteq Snapshot.str_cols
        /\ Snapshot.num_categorical_cols \subseteq Snapshot.numerical_cols
        /\ \A b \in TypeBuckets \cup {"constant_cols"} :
               Snapshot[b] \subseteq feature_cols

\* a snapshot of a table whose column "a", a constant string, is a metadata
\* column and no feature column, and whose column "b" is categorical
C26_Witness ==
    /\ Classified
    /\ feature_cols = {"b"}
    /\ NUnique(df.cols["a"], FALSE) = 1
    /\ TypesOf(df.cols["a"]) = {PyStr}
    /\ Snapshot.constant_cols = {}
    /\ "b" \in Snapshot.num_categorical_cols

----------------------------------------------------------------------------
(* Properties of _get_categorical_cols, checked under SpecCateg *)

\* the number of distinct values of column c, the missing marker counted as
\* one of them when the column has it
DistinctValues(c) == Cardinality({PyKey(v) : v \in Range(df.cols[c])})

\* the number of non-missing values of column c
NonMissingCount(c) == Len(df.cols[c]) - MissingCount(c)

\* C12: a column of strings or of numbers with u distinct values (the
\* missing marker counted as one value) and n non-missing values is returned
\* as categorical exactly if u < 7 or u < n // 300 with floor division, that
\* is 300 * (u + 1) <= n; with n = 10000 a column without missing values is
\* categorical for u = 6 and u = 32 and is not for u = 33 and u = 50.
C12_Threshold ==
    last.op = "_get_categorical_cols" =>
        \A c \in last.arg :
            LET u == DistinctValues(c)
                n == NonMissingCount(c)
            IN  /\ c \in last.ret <=> (u < 7 \/ 300 * (u + 1) <= n)
                /\ (n = 10000 /\ u \in {6, 32}) => c \in last.ret
                /\ (n = 10000 /\ u \in {33, 50}) => c \notin last.ret
                /\ c \in last.ret => df.dtype[c] = "category"

\* a column of 10000 values and no missing one, 32 of them distinct, was
\* returned as categorical
C12_Witness ==
    /\ last.op = "_get_categorical_cols"
    /\ last.ret = {"a"}
    /\ df.nrows = 10000
    /\ NonMissingCount("a") = 10000
    /\ DistinctValues("a") = 32

----------------------------------------------------------------------------
(* The column sets under add_operation, checked under SpecClass *)

\* C21 as stated: metadata columns and feature columns that are disjoint
\* stay disjoint under every add_operation, also when the operation derives
\* a feature column from metadata columns only.
C21_AsStated ==
    [][metadata_cols \cap feature_cols = {}
           => metadata_cols' \cap feature_cols' = {}]_vars

----------------------------------------------------------------------------
(* Properties of fillna, checked under SpecFill *)

\* the table d after the missing values of column src have been filled with
\* value into column dst, every other column kept
FilledInto(d, src, dst, value) ==
    [d EXCEPT !.cols =
        [c \in DOMAIN d.cols \cup {dst} |->
            IF c = dst
            THEN [i \in DOMAIN d.cols[src] |->
                     IF d.cols[src][i] = NaN THEN value ELSE d.cols[src][i]]
            ELSE d.cols[c]]]

\* a call of fillna behaves as follows, where given tells whether a list
\* counts as a derived_columns that was given: when columns, or a given
\* derived_columns, is not a list of one name, ValueError is raised and the
\* receiver is unchanged; otherwise the fill goes from the source column into
\* the derived column when one is given and into the source column when not,
\* and it is applied to the receiver, None being returned, with inplace=True,
\* and to a returned Dataset, the receiver being unchanged, with inplace=False
FillNaStep(given(_)) ==
    (last'.op = "fillna" /\ last' # last) =>
        LET arg == last'.arg
            src == arg.columns[1]
            dst == IF given(arg.derived_columns)
                   THEN arg.derived_columns[1] ELSE src
        IN  /\ UNCHANGED <<metadata_cols, feature_cols, feature_elaborations,
                           derived_columns>>
            /\ IF \/ Len(arg.columns) # 1
                  \/ given(arg.derived_columns) /\ Len(arg.derived_columns) # 1
               THEN last'.exc = "ValueError" /\ df' = df
               ELSE /\ last'.exc = None
                    /\ IF arg.inplace
                       THEN /\ last'.ret = <<>>
                            /\ df' = FilledInto(df, src, dst, arg.value)
                       ELSE /\ df' = df
                            /\ Len(last'.ret) = 1
                            /\ last'.ret[1].df = FilledInto(df, src, dst, arg.value)

\* a derived_columns other than None was given
NotNone(derived) == derived # NoneCols

\* C22 as stated: every derived_columns that is given, the empty list
\* included, must be a list of one name.
C22_AsStated == [][FillNaStep(NotNone)]_vars

----------------------------------------------------------------------------
(* Registering and looking up, checked under SpecTrip *)

\* the entries of the ledger, over all columns
LedgerEntries ==
    UNION {Range(feature_elaborations[c]) : c \in DOMAIN feature_elaborations}

\* how many entries of the list of column c are the operation op
EntriesOf(c, op) ==
    Cardinality({i \in 1..Len(Elaborations(feature_elaborations, c)) :
                    Elaborations(feature_elaborations, c)[i] = op})

\* the ledger holds op as one add_operation(op) leaves it: once for every
\* occurrence of a column in its original and in its derived columns
RegisteredOnce(op) ==
    \A c \in NamedColumns(op) :
        EntriesOf(c, op) = Occurrences(op.original_columns, c)
                               + Occurrences(op.derived_columns, c)

\* the ledger holds no other operation that equals op
NoOtherEqual(op) ==
    \A f \in LedgerEntries : FeatureOperationEq(f, op) => f = op

\* C23 as stated: the lookup of an operation with original columns that was
\* registered once, in a ledger with no other operation equal to it, returns
\* that operation, also when a column is among its original and its derived
\* columns.
C23_AsStated ==
    (/\ FoundLast
     /\ last.arg.original_columns \notin {NoneCols, <<>>}
     /\ RegisteredOnce(last.arg)
     /\ NoOtherEqual(last.arg))
        => last.exc = None /\ last.ret = <<last.arg>>

----------------------------------------------------------------------------
(* The queries and the ledger, checked under SpecQuery *)

Queries == {"find_operation_in_column", "get_enc_column_from_original",
            "get_original_from_enc_column", "get_encoded_string_values_map"}

\* C24 as stated: a query leaves the keys of the ledger, the list of every
\* column, metadata_cols and derived_columns as they were, also when nothing
\* was registered for the queried column.
C24_AsStated ==
    [][last'.op \in Queries =>
          /\ feature_elaborations' = feature_elaborations
          /\ metadata_cols' = metadata_cols
          /\ derived_columns' = derived_columns]_vars

----------------------------------------------------------------------------
(* The copies, checked under SpecCopy *)

\* C25 as stated: after the copy, an add_operation on the copy leaves the
\* ledger, metadata_cols and derived_columns of the copied Dataset as they
\* were, and an add_operation on the copied Dataset leaves those of the copy
\* (whose ledger is feature_elaborations too) as they were.
C25_AsStated ==
    [][/\ last'.op = "copy.add_operation" =>
            /\ feature_elaborations' = feature_elaborations
            /\ metadata_cols' = metadata_cols
            /\ derived_columns' = derived_columns
       /\ (copies # <<>> /\ last'.op = "add_operation") =>
            /\ feature_elaborations' = feature_elaborations
            /\ copies' = copies]_vars

====
